---- MODULE Spec2Model ----
(***************************************************************************)
(* Game state machine of intelligent-qube (src/src/game.js, lines 1-900):  *)
(* stage rows, score, player, cubes, the single mark, the pending          *)
(* advantage areas, the roll animations and the per-frame update.          *)
(*                                                                         *)
(* Coordinates are fixed point: 1000 model units are 1.0 in the program.   *)
(* The record g that the operators below pass around holds the fields of   *)
(* the Game object (this.score, this.rows, this.cubes, ...).               *)
(***************************************************************************)
EXTENDS Integers, Sequences, FiniteSets, TLC

\* ------------------------------------------------------------------ units
Unit == 1000
Half == 500

\* ------------------------------------------------- constants of the Game
cols == 8
startRows == 25
moveInterval == 180
wavesPerLevel == 4
playerSpeed == 80
rollStep == 50
KEY_DELAY == 100
minRows == 5
forbiddenPenalty == 1000
markPoints == 100
areaPoints == 200
maxWaveRows == 14

\* ---------------------------------------------------------------- bounds
\* frames delivered in one run
MaxFrames == 1
\* wave positions (in generation order) whose type is a free random draw;
\* the remaining positions of a wave draw 0 (a Normal cube)
MaxSpecial == 1
\* cubes left on the stage in a game in progress
MaxCubes == 2

VARIABLES level, score, rows, isGameOver, currentWave, moveTimer, player,
          cubes, rollingCubes, anims, markedCells, advantageSpots, nextId,
          deaths, keyAge, frames, last, held

vars == <<level, score, rows, isGameOver, currentWave, moveTimer, player,
          cubes, rollingCubes, anims, markedCells, advantageSpots, nextId,
          deaths, keyAge, frames, last, held>>

\* ----------------------------------------------------------- arithmetic
Abs(v) == IF v < 0 THEN -v ELSE v
Min(a, b) == IF a < b THEN a ELSE b
Max(a, b) == IF a > b THEN a ELSE b
\* ceiling of a / b for b > 0
CeilDiv(a, b) == -((-a) \div b)

\* Math.floor on a fixed-point value
MathFloor(v) == (v \div Unit) * Unit
\* Math.round: nearest integer, ties towards +infinity
MathRound(v) == MathFloor(v + Half)

\* the key built with Math.round on both axes
MarkKey_Rounded(x, z) == <<MathRound(x), MathRound(z)>>

\* `${Math.floor(x) + 0.5},${Math.floor(z)}`: the key of a mark and of a cube
\* in toggleMark
MarkKey(x, z) == <<MathFloor(x) + Half, MathFloor(z)>>
\* (Math.round(x - 0.5) + 0.5, Math.round(z - 0.5) + 0.5): the cell used by
\* updatePlayer and triggerAllAdvantageSpots
GridCell(x, z) == <<MathRound(x - Half) + Half, MathRound(z - Half) + Half>>

\* ------------------------------------------------------ sequence helpers
Ids(cs) == {cs[i].id : i \in 1..Len(cs)}
KeysOf(spots) == [i \in 1..Len(spots) |-> spots[i].key]
HasKey(spots, key) == \E i \in 1..Len(spots) : spots[i].key = key
\* Map.prototype.set: replace the value of an existing key in place, else
\* append the entry
MapSet(spots, key, markers) ==
    IF HasKey(spots, key)
    THEN [i \in 1..Len(spots) |->
            IF spots[i].key = key THEN [key |-> key, markers |-> markers]
            ELSE spots[i]]
    ELSE Append(spots, [key |-> key, markers |-> markers])
\* Map.prototype.delete
MapDelete(spots, key) == SelectSeq(spots, LAMBDA e : e.key # key)

\* --------------------------------------------------------------- handlers
\* handlePlayerDeath: sets isGameOver and shows the overlay (counted)
handlePlayerDeath(g) ==
    [g EXCEPT !.isGameOver = TRUE, !.deaths = @ + 1]

\* handleForbiddenCube with the floor test one row too low
handleForbiddenCube_LateFloor(g) ==
    LET g1 == [g EXCEPT !.score = @ - forbiddenPenalty, !.rows = @ - 1]
    IN  IF g1.rows < minRows - 1
        THEN handlePlayerDeath([g1 EXCEPT !.isGameOver = TRUE])
        ELSE g1

\* handleForbiddenCube: penalty, one row less, game over below the floor
handleForbiddenCube(g) ==
    LET g1 == [g EXCEPT !.score = @ - forbiddenPenalty, !.rows = @ - 1]
    IN  IF g1.rows < minRows
        THEN handlePlayerDeath([g1 EXCEPT !.isGameOver = TRUE])
        ELSE g1

\* the 3x3 marker positions of createAdvantageMarker, dx outer, dz inner,
\* skipping the positions outside the stage
MarkerAt(x, z, n) == <<x + ((n \div 3) - 1) * Unit, z + ((n % 3) - 1) * Unit>>
MarkerInBounds(g, m) ==
    ~ (2 * m[1] < -cols * Unit \/ 2 * m[1] > cols * Unit \/
       2 * m[2] < -g.rows * Unit \/ 2 * m[2] > g.rows * Unit)
\* the markers without the bounds test
AreaMarkers_NoClip(g, x, z) == [n \in 1..9 |-> MarkerAt(x, z, n - 1)]
AreaMarkers(g, x, z) ==
    SelectSeq([n \in 1..9 |-> MarkerAt(x, z, n - 1)],
              LAMBDA m : MarkerInBounds(g, m))

\* createAdvantageMarker(x, z)
createAdvantageMarker(g, x, z) ==
    [g EXCEPT !.advantageSpots = MapSet(@, <<x, z>>, AreaMarkers(g, x, z))]

\* the forEach body awarding the points to a Forbidden cube as well
MarkVisit_PointsForForbidden(acc, c, key) ==
    IF MarkKey(c.x, c.z) = key
    THEN LET a0 == [acc EXCEPT !.points = @ + markPoints]
             a1 == IF c.type = "forbidden"
                   THEN [a0 EXCEPT !.g = handleForbiddenCube(@)]
                   ELSE IF c.type = "advantage"
                        THEN [a0 EXCEPT !.g = createAdvantageMarker(
                                  @, MathFloor(c.x) + Half, MathFloor(c.z))]
                        ELSE a0
         IN  [a1 EXCEPT !.cleared = @ \cup {c.id}]
    ELSE acc

\* the forEach body that leaves a Forbidden cube in the list
MarkVisit_KeepForbidden(acc, c, key) ==
    IF MarkKey(c.x, c.z) = key
    THEN IF c.type = "forbidden"
         THEN [acc EXCEPT !.g = handleForbiddenCube(@)]
         ELSE LET a2 == [acc EXCEPT !.points = @ + markPoints,
                                    !.cleared = @ \cup {c.id}]
              IN  IF c.type = "advantage"
                  THEN [a2 EXCEPT !.g = createAdvantageMarker(
                            @, MathFloor(c.x) + Half, MathFloor(c.z))]
                  ELSE a2
    ELSE acc

\* one iteration of the forEach of toggleMark over cube c;
\* acc = [g, points, cleared]
MarkVisit(acc, c, key) ==
    IF MarkKey(c.x, c.z) = key
    THEN LET a1 ==
                IF c.type = "forbidden"
                THEN [acc EXCEPT !.g = handleForbiddenCube(@)]
                ELSE LET a2 == [acc EXCEPT !.points = @ + markPoints]
                     IN  IF c.type = "advantage"
                         THEN [a2 EXCEPT !.g = createAdvantageMarker(
                                   @, MathFloor(c.x) + Half, MathFloor(c.z))]
                         ELSE a2
         IN  [a1 EXCEPT !.cleared = @ \cup {c.id}]
    ELSE acc

RECURSIVE MarkLoop(_, _, _, _)
MarkLoop(acc, cs, key, i) ==
    IF i > Len(cs) THEN acc
    ELSE MarkLoop(MarkVisit(acc, cs[i], key), cs, key, i + 1)

\* the activation that returns early, mark kept, when no cube matched
activateMark_KeepMarkOnMiss(g) ==
    LET key == g.markedCells[1]
        acc == MarkLoop([g |-> g, points |-> 0, cleared |-> {}],
                        g.cubes, key, 1)
        g1  == [acc.g EXCEPT
                  !.cubes = SelectSeq(@, LAMBDA c : c.id \notin acc.cleared)]
        g2  == IF acc.points > 0
               THEN [g1 EXCEPT !.score = @ + acc.points]
               ELSE g1
    IN  IF acc.cleared = {} THEN g ELSE [g2 EXCEPT !.markedCells = <<>>]

\* toggleMark, the branch with an active mark: activate it
activateMark(g) ==
    LET key == g.markedCells[1]
        acc == MarkLoop([g |-> g, points |-> 0, cleared |-> {}],
                        g.cubes, key, 1)
        g1  == [acc.g EXCEPT
                  !.cubes = SelectSeq(@, LAMBDA c : c.id \notin acc.cleared)]
        g2  == IF acc.points > 0
               THEN [g1 EXCEPT !.score = @ + acc.points]
               ELSE g1
    IN  [g2 EXCEPT !.markedCells = <<>>]

\* the mark keyed by Math.round of the player's z
placeMark_Rounded(g) ==
    [g EXCEPT !.markedCells =
        <<<<MathFloor(g.player.x) + Half, MathRound(g.player.z)>>>>]

\* toggleMark, the branch without a mark: mark the cell under the player
placeMark(g) ==
    [g EXCEPT !.markedCells = <<MarkKey(g.player.x, g.player.z)>>]

\* toggleMark that always lays a mark under the player
toggleMark_AlwaysMark(g) ==
    LET key == MarkKey(g.player.x, g.player.z)
    IN  IF \E i \in 1..Len(g.markedCells) : g.markedCells[i] = key THEN g
        ELSE [g EXCEPT !.markedCells = Append(@, key)]

\* toggleMark
toggleMark(g) ==
    IF Len(g.markedCells) > 0 THEN activateMark(g) ELSE placeMark(g)

\* the test of triggerAllAdvantageSpots: cube c lies in the area at key
InArea(c, key) ==
    LET cell == GridCell(c.x, c.z)
    IN  Abs(cell[1] - key[1]) <= Unit /\ Abs(cell[2] - key[2]) <= Unit

RECURSIVE Penalties(_, _)
Penalties(g, n) ==
    IF n = 0 THEN g ELSE Penalties(handleForbiddenCube(g), n - 1)

\* the loop body charging the penalty once however many Forbidden cubes
TriggerSpot_SinglePenalty(g, key) ==
    LET hit  == SelectSeq(g.cubes, LAMBDA c : InArea(c, key))
        forbiddenCount ==
            Len(SelectSeq(hit, LAMBDA c : c.type = "forbidden"))
        pointsGained == areaPoints * (Len(hit) - forbiddenCount)
        g1 == Penalties(g, Min(forbiddenCount, 1))
        g2 == [g1 EXCEPT
                 !.cubes = SelectSeq(@, LAMBDA c : ~ InArea(c, key)),
                 !.advantageSpots = MapDelete(@, key)]
    IN  IF pointsGained > 0
        THEN [g2 EXCEPT !.score = @ + pointsGained]
        ELSE g2

\* one iteration of the for loop of triggerAllAdvantageSpots
TriggerSpot(g, key) ==
    LET hit  == SelectSeq(g.cubes, LAMBDA c : InArea(c, key))
        forbiddenCount ==
            Len(SelectSeq(hit, LAMBDA c : c.type = "forbidden"))
        pointsGained == areaPoints * (Len(hit) - forbiddenCount)
        g1 == Penalties(g, forbiddenCount)
        g2 == [g1 EXCEPT
                 !.cubes = SelectSeq(@, LAMBDA c : ~ InArea(c, key)),
                 !.advantageSpots = MapDelete(@, key)]
    IN  IF pointsGained > 0
        THEN [g2 EXCEPT !.score = @ + pointsGained]
        ELSE g2

\* the states after 0, 1, ..., n iterations of the loop over spotsToTrigger
RECURSIVE TriggerRun(_, _, _)
TriggerRun(log, ks, i) ==
    IF i > Len(ks) THEN log
    ELSE TriggerRun(Append(log, TriggerSpot(log[Len(log)], ks[i])), ks, i + 1)

TriggerSteps(g) == TriggerRun(<<g>>, KeysOf(g.advantageSpots), 1)

\* the trigger that tests every area against the cube list of the call
RECURSIVE SnapshotRun(_, _, _, _)
SnapshotRun(g, cs, ks, i) ==
    IF i > Len(ks) THEN g
    ELSE SnapshotRun(TriggerSpot([g EXCEPT !.cubes = cs], ks[i]), cs, ks, i + 1)
triggerAllAdvantageSpots_Snapshot(g) ==
    SnapshotRun(g, g.cubes, KeysOf(g.advantageSpots), 1)

\* triggerAllAdvantageSpots
triggerAllAdvantageSpots(g) ==
    IF Len(g.advantageSpots) = 0 THEN g
    ELSE LET log == TriggerSteps(g) IN log[Len(log)]

\* ------------------------------------------------------------- the player
\* the held movement keys of one frame (w/arrowup, s/arrowdown, a/arrowleft,
\* d/arrowright)
KeyStates == [up : BOOLEAN, down : BOOLEAN, left : BOOLEAN, right : BOOLEAN]
Held(in) == {k \in {"up", "down", "left", "right"} : in[k]}
\* the frames sampled: no key or one movement key held
MoveInputs == {in \in KeyStates : Cardinality(Held(in)) <= 1}

IsRolling(g, c) == c.id \in g.rollingCubes

\* the clamped destination of updatePlayer
Destination(g, in) ==
    LET z1 == IF in.up THEN g.player.z - playerSpeed ELSE g.player.z
        z2 == IF in.down THEN z1 + playerSpeed ELSE z1
        x1 == IF in.left THEN g.player.x - playerSpeed ELSE g.player.x
        x2 == IF in.right THEN x1 + playerSpeed ELSE x1
    IN  [x |-> Max(-(cols * Half) + Half, Min(cols * Half - Half, x2)),
         z |-> Max(-(g.rows * Half) + Half, Min(g.rows * Half - Half, z2))]

\* the collision test that counts rolling cubes as well
wouldCollide_RollingBlocks(g, dest) ==
    \E i \in 1..Len(g.cubes) :
        GridCell(g.cubes[i].x, g.cubes[i].z) = GridCell(dest.x, dest.z)

wouldCollide(g, dest) ==
    \E i \in 1..Len(g.cubes) :
        /\ ~ IsRolling(g, g.cubes[i])
        /\ GridCell(g.cubes[i].x, g.cubes[i].z) = GridCell(dest.x, dest.z)

isPlayerCrushed(g) ==
    \E i \in 1..Len(g.cubes) :
        /\ IsRolling(g, g.cubes[i])
        /\ GridCell(g.cubes[i].x, g.cubes[i].z) = GridCell(g.player.x, g.player.z)

\* updatePlayer without the test for a cube rolling onto the player
updatePlayer_NoCrush(g, in) ==
    IF g.isGameOver THEN g
    ELSE LET dest == Destination(g, in)
         IN  IF wouldCollide(g, dest) THEN g
             ELSE [g EXCEPT !.player = dest]

\* updatePlayer killing the player that walks against a settled cube
updatePlayer_DeathOnBlock(g, in) ==
    IF g.isGameOver THEN g
    ELSE LET dest == Destination(g, in)
             g1 == IF wouldCollide(g, dest) THEN handlePlayerDeath(g)
                   ELSE [g EXCEPT !.player = dest]
         IN  IF isPlayerCrushed(g1) THEN handlePlayerDeath(g1) ELSE g1

\* updatePlayer testing for the crush before the move
updatePlayer_CrushBeforeMove(g, in) ==
    IF g.isGameOver THEN g
    ELSE LET dest == Destination(g, in)
             g0 == IF isPlayerCrushed(g) THEN handlePlayerDeath(g) ELSE g
         IN  IF wouldCollide(g, dest) THEN g0
             ELSE [g0 EXCEPT !.player = dest]

\* updatePlayer
updatePlayer(g, in) ==
    IF g.isGameOver THEN g
    ELSE LET dest == Destination(g, in)
             g1 == IF wouldCollide(g, dest) THEN g
                   ELSE [g EXCEPT !.player = dest]
         IN  IF isPlayerCrushed(g1) THEN handlePlayerDeath(g1) ELSE g1

\* ---------------------------------------------------------------- waves
\* getRandomCubeType on a draw in hundredths
getRandomCubeType(rand) ==
    IF rand < 70 THEN "normal"
    ELSE IF rand < 85 THEN "advantage" ELSE "forbidden"

\* the values Math.random() is drawn from, in hundredths
RandValues == {69, 70, 84, 85}
\* the draws of one wave: a free draw for the first MaxSpecial positions
WaveDraws == [1..MaxSpecial -> RandValues]
DrawAt(draws, k) == IF k <= MaxSpecial THEN draws[k] ELSE 0

\* generateWave without the cap on the number of rows
generateWave_NoCap(g, draws) ==
    LET numRows == 3 + g.level
        rowLength == cols
        n == numRows * rowLength
    IN  [g EXCEPT
           !.cubes = [k \in 1..n |->
               [id   |-> g.nextId + k - 1,
                type |-> getRandomCubeType(DrawAt(draws, k)),
                x    |-> (((k - 1) % rowLength) - (rowLength \div 2)) * Unit
                          + Half,
                z    |-> -(g.rows * Half) - ((k - 1) \div rowLength) * Unit
                          - Half]],
           !.nextId = @ + n]

\* generateWave
generateWave(g, draws) ==
    LET numRows == Min(3 + g.level, maxWaveRows)
        rowLength == cols
        n == numRows * rowLength
    IN  [g EXCEPT
           !.cubes = [k \in 1..n |->
               [id   |-> g.nextId + k - 1,
                type |-> getRandomCubeType(DrawAt(draws, k)),
                x    |-> (((k - 1) % rowLength) - (rowLength \div 2)) * Unit
                          + Half,
                z    |-> -(g.rows * Half) - ((k - 1) \div rowLength) * Unit
                          - Half]],
           !.nextId = @ + n]

\* startLevel
startLevel(g, draws) == generateWave([g EXCEPT !.currentWave = 0], draws)

\* ---------------------------------------------------------------- rolls
\* cube.mesh.position.z = currentPos.z + (targetPos.z - currentPos.z) * progress
\* where currentPos is the live position of the cube; the distance left to
\* the target is rounded up to a model unit, which keeps Math.floor of the
\* position exact
RollZ(z, tz, progress) == tz - CeilDiv((tz - z) * (Unit - progress), Unit)

\* the roll started for cube c by updateCubes, after the first call of its
\* animate closure
StartRoll(c) ==
    LET tz == MathRound(c.z) + Unit
    IN  [cube |-> [c EXCEPT !.z = RollZ(c.z, tz, rollStep)],
         anim |-> [id |-> c.id, tz |-> tz, progress |-> rollStep]]

\* the movement tick that keeps the cubes beyond the near edge in the list
MoveCubes_NoDrop(g) ==
    LET idle(c) == ~ IsRolling(g, c)
        moved == [i \in 1..Len(g.cubes) |->
                    IF idle(g.cubes[i]) THEN StartRoll(g.cubes[i]).cube
                    ELSE g.cubes[i]]
        started == SelectSeq(g.cubes, idle)
    IN  [g EXCEPT
           !.cubes = moved,
           !.rollingCubes = @ \cup Ids(started),
           !.anims = @ \o [i \in 1..Len(started) |-> StartRoll(started[i]).anim]]

\* the movement tick of updateCubes (moveTimer has reached moveInterval)
MoveCubes(g) ==
    LET idle(c) == ~ IsRolling(g, c)
        moved == [i \in 1..Len(g.cubes) |->
                    IF idle(g.cubes[i]) THEN StartRoll(g.cubes[i]).cube
                    ELSE g.cubes[i]]
        started == SelectSeq(g.cubes, idle)
    IN  [g EXCEPT
           !.cubes = SelectSeq(moved, LAMBDA c : ~ (2 * c.z > g.rows * Unit)),
           !.rollingCubes = @ \cup Ids(started),
           !.anims = @ \o [i \in 1..Len(started) |-> StartRoll(started[i]).anim]]

\* the wave-complete branch that restarts the wave count without raising
\* the level
NextWave_NoLevelUp(g, draws) ==
    LET g1 == [g EXCEPT !.currentWave = @ + 1]
    IN  IF g1.currentWave < wavesPerLevel
        THEN generateWave(g1, draws)
        ELSE startLevel(g1, draws)

\* the wave-complete branch letting one wave more pass before the level ends
NextWave_OneWaveLate(g, draws) ==
    LET g1 == [g EXCEPT !.currentWave = @ + 1]
    IN  IF g1.currentWave <= wavesPerLevel
        THEN generateWave(g1, draws)
        ELSE startLevel([g1 EXCEPT !.level = @ + 1], draws)

\* the wave-complete branch of updateCubes
NextWave(g, draws) ==
    LET g1 == [g EXCEPT !.currentWave = @ + 1]
    IN  IF g1.currentWave < wavesPerLevel
        THEN generateWave(g1, draws)
        ELSE startLevel([g1 EXCEPT !.level = @ + 1], draws)

\* updateCubes running the tick one frame late
updateCubes_LateTick(g, draws) ==
    LET g1 == [g EXCEPT !.moveTimer = @ + 1]
    IN  IF g1.moveTimer > moveInterval
        THEN LET g2 == MoveCubes([g1 EXCEPT !.moveTimer = 0])
             IN  IF Len(g2.cubes) = 0 THEN NextWave(g2, draws) ELSE g2
        ELSE g1

\* updateCubes asking for the next wave only when the tick itself emptied
\* the list
updateCubes_WaveAfterFallOnly(g, draws) ==
    LET g1 == [g EXCEPT !.moveTimer = @ + 1]
    IN  IF g1.moveTimer >= moveInterval
        THEN LET g2 == MoveCubes([g1 EXCEPT !.moveTimer = 0])
             IN  IF Len(g2.cubes) = 0 /\ Len(g.cubes) > 0
                 THEN NextWave(g2, draws) ELSE g2
        ELSE g1

\* updateCubes
updateCubes(g, draws) ==
    LET g1 == [g EXCEPT !.moveTimer = @ + 1]
    IN  IF g1.moveTimer >= moveInterval
        THEN LET g2 == MoveCubes([g1 EXCEPT !.moveTimer = 0])
             IN  IF Len(g2.cubes) = 0 THEN NextWave(g2, draws) ELSE g2
        ELSE g1

\* the call of the animate closure that forgets rollingCubes when its cube
\* has left the list
AnimStep_ListedOnly(g, a) ==
    LET p == a.progress + rollStep
        advance(c) == IF c.id = a.id THEN [c EXCEPT !.z = RollZ(c.z, a.tz, p)]
                      ELSE c
        snap(c) == IF c.id = a.id THEN [c EXCEPT !.z = a.tz] ELSE c
        bump(b) == IF b.id = a.id THEN [b EXCEPT !.progress = p] ELSE b
    IN  IF a.progress < Unit
        THEN [g EXCEPT
                !.cubes = [i \in 1..Len(g.cubes) |-> advance(g.cubes[i])],
                !.anims = [i \in 1..Len(g.anims) |-> bump(g.anims[i])]]
        ELSE [g EXCEPT
                !.cubes = [i \in 1..Len(g.cubes) |-> snap(g.cubes[i])],
                !.rollingCubes = IF a.id \in Ids(g.cubes) THEN @ \ {a.id}
                                 ELSE @,
                !.anims = SelectSeq(@, LAMBDA b : b.id # a.id)]

\* one later call of the animate closure of a roll: advance the cube, or
\* snap it to its target and drop it from rollingCubes
AnimStep(g, a) ==
    LET p == a.progress + rollStep
        advance(c) == IF c.id = a.id THEN [c EXCEPT !.z = RollZ(c.z, a.tz, p)]
                      ELSE c
        snap(c) == IF c.id = a.id THEN [c EXCEPT !.z = a.tz] ELSE c
        bump(b) == IF b.id = a.id THEN [b EXCEPT !.progress = p] ELSE b
    IN  IF a.progress < Unit
        THEN [g EXCEPT
                !.cubes = [i \in 1..Len(g.cubes) |-> advance(g.cubes[i])],
                !.anims = [i \in 1..Len(g.anims) |-> bump(g.anims[i])]]
        ELSE [g EXCEPT
                !.cubes = [i \in 1..Len(g.cubes) |-> snap(g.cubes[i])],
                !.rollingCubes = @ \ {a.id},
                !.anims = SelectSeq(@, LAMBDA b : b.id # a.id)]

\* the animation callbacks that were pending when the frame began, in
\* registration order
RECURSIVE RunAnims(_, _, _)
RunAnims(g, pending, i) ==
    IF i > Len(pending) THEN g
    ELSE RunAnims(AnimStep(g, pending[i]), pending, i + 1)

\* Game.animate
animate(g, in, draws) ==
    IF ~ g.isGameOver THEN updateCubes(updatePlayer(g, in), draws) ELSE g

\* the frame reaches generateWave, where the random draws are made
WaveDue(g, in) ==
    LET g1 == updatePlayer(g, in)
    IN  /\ ~ g.isGameOver
        /\ g1.moveTimer + 1 >= moveInterval
        /\ Len(MoveCubes(g1).cubes) = 0
NoDraws == [k \in 1..MaxSpecial |-> 0]

\* one animation frame: Game.animate, then the pending roll callbacks
RunFrame(g, in, draws) == RunAnims(animate(g, in, draws), g.anims, 1)

\* ------------------------------------------------------------- the state
G == [level |-> level, score |-> score, rows |-> rows,
      isGameOver |-> isGameOver, currentWave |-> currentWave,
      moveTimer |-> moveTimer, player |-> player, cubes |-> cubes,
      rollingCubes |-> rollingCubes, anims |-> anims,
      markedCells |-> markedCells, advantageSpots |-> advantageSpots,
      nextId |-> nextId, deaths |-> deaths]

Becomes(g) ==
    /\ level' = g.level
    /\ score' = g.score
    /\ rows' = g.rows
    /\ isGameOver' = g.isGameOver
    /\ currentWave' = g.currentWave
    /\ moveTimer' = g.moveTimer
    /\ player' = g.player
    /\ cubes' = g.cubes
    /\ rollingCubes' = g.rollingCubes
    /\ anims' = g.anims
    /\ markedCells' = g.markedCells
    /\ advantageSpots' = g.advantageSpots
    /\ nextId' = g.nextId
    /\ deaths' = g.deaths

Starts(g) ==
    /\ level = g.level
    /\ score = g.score
    /\ rows = g.rows
    /\ isGameOver = g.isGameOver
    /\ currentWave = g.currentWave
    /\ moveTimer = g.moveTimer
    /\ player = g.player
    /\ cubes = g.cubes
    /\ rollingCubes = g.rollingCubes
    /\ anims = g.anims
    /\ markedCells = g.markedCells
    /\ advantageSpots = g.advantageSpots
    /\ nextId = g.nextId
    /\ deaths = g.deaths

\* the fields set by the constructor, before startLevel and animate
Constructed ==
    [level |-> 1, score |-> 0, rows |-> startRows, isGameOver |-> FALSE,
     currentWave |-> 0, moveTimer |-> 0,
     player |-> [x |-> Half, z |-> startRows * Half - Unit - Half],
     cubes |-> <<>>, rollingCubes |-> {}, anims |-> <<>>,
     markedCells |-> <<>>, advantageSpots |-> <<>>, nextId |-> 1,
     deaths |-> 0]

NoKeys == [up |-> FALSE, down |-> FALSE, left |-> FALSE, right |-> FALSE]

\* the state the constructor leaves: startLevel(), then the first animate()
InitConstructed ==
    \E draws \in WaveDraws :
        Starts(animate(startLevel(Constructed, draws), NoKeys, draws))

\* ------------------------------------------------- games in progress
\* The cells the cubes of a game in progress are drawn from, in wave order
\* (near row first): three successive rows of one column.  The player
\* stands one row nearer; the preset mark and the first preset area are
\* centred on the middle row, the second area on its right neighbour.
Slots == << <<Half, -Unit>>, <<Half, -2 * Unit>>, <<Half, -3 * Unit>> >>
CubeTypes == {"normal", "advantage", "forbidden"}
\* <<rows, currentWave>>: the floor in the last wave of a level, one row
\* above the floor in its first wave
InitStages == {<<minRows, wavesPerLevel - 1>>, <<minRows + 1, 0>>}
\* moveTimer: in the middle of an interval, and one frame before the tick
InitTimers == {100, moveInterval - 1}
InitMarks == {<<>>, << <<Half, -2 * Unit>> >>}
InitAreaKeys == {<<>>, << <<Half, -2 * Unit>> >>,
                 << <<Half, -2 * Unit>>, <<Unit + Half, -2 * Unit>> >>}
\* the score of that game: every row lost cost forbiddenPenalty, every
\* pending area was laid by an Advantage clear, the rest of the level-1
\* wave was cleared by area triggers
InitScore(r, cs, ks) ==
    -forbiddenPenalty * (startRows - r) + markPoints * Len(ks)
    + areaPoints * (cols * 4 - Len(cs) - Len(ks))

RECURSIVE SlotCubes(_, _, _)
SlotCubes(S, types, i) ==
    IF i > Len(Slots) THEN <<>>
    ELSE IF i \in S
         THEN <<[id |-> i, type |-> types[i], x |-> Slots[i][1],
                 z |-> Slots[i][2]]>> \o SlotCubes(S, types, i + 1)
         ELSE SlotCubes(S, types, i + 1)

\* a game in progress, between two frames and with no roll under way (the
\* rolls of a tick are over after 21 frames): rows
\* has been reduced by forbidden clears, a few cubes of the wave are left,
\* a mark or areas may be pending
InProgress(r, cs, mk, ks, mt, w) ==
    LET g0 == [Constructed EXCEPT
                 !.score = InitScore(r, cs, ks),
                 !.rows = r,
                 !.currentWave = w,
                 !.moveTimer = mt,
                 !.player = [x |-> Half, z |-> 0],
                 !.cubes = cs,
                 !.markedCells = mk,
                 !.nextId = Len(Slots) + 1]
    IN  [g0 EXCEPT !.advantageSpots =
            [i \in 1..Len(ks) |->
                [key |-> ks[i],
                 markers |-> AreaMarkers(g0, ks[i][1], ks[i][2])]]]

InitInProgress ==
    \E st \in InitStages, mk \in InitMarks, ks \in InitAreaKeys,
       mt \in InitTimers :
    \E S \in SUBSET (1..Len(Slots)) :
        /\ Cardinality(S) <= MaxCubes
        /\ \E types \in [S -> CubeTypes] :
              Starts(InProgress(st[1], SlotCubes(S, types, 1), mk, ks, mt, st[2]))

Idle == [op |-> "none"]
\* no key is held down
NoHold == [key |-> "none", events |-> 0, fired |-> 0]

Init ==
    /\ InitConstructed \/ InitInProgress
    /\ keyAge = KEY_DELAY + 1
    /\ frames = 0
    /\ last = Idle
    /\ held = NoHold

\* ---------------------------------------------------------------- actions
\* the keydown handler on a Space that passes the KEY_DELAY test:
\* toggleMark
SpaceAccepted ==
    /\ keyAge > KEY_DELAY
    /\ keyAge' = 0
    /\ Becomes(toggleMark(G))
    /\ last' = [op |-> IF Len(markedCells) > 0 THEN "activate" ELSE "mark",
                pre |-> G]
    /\ UNCHANGED frames

\* keydown of Space accepted by the KEY_DELAY test, the key released at once
KeyDownSpace == SpaceAccepted /\ UNCHANGED held

\* the keydown handler on a Backspace that passes the KEY_DELAY test:
\* triggerAllAdvantageSpots when an area is pending
BackspaceAccepted ==
    /\ keyAge > KEY_DELAY
    /\ keyAge' = 0
    /\ Becomes(IF Len(advantageSpots) > 0 THEN triggerAllAdvantageSpots(G)
               ELSE G)
    /\ last' = IF Len(advantageSpots) > 0
               THEN [op |-> "trigger", pre |-> G, steps |-> TriggerSteps(G)]
               ELSE [op |-> "backspace", pre |-> G]
    /\ UNCHANGED frames

\* keydown of Backspace accepted by the KEY_DELAY test, the key released at
\* once
KeyDownBackspace == BackspaceAccepted /\ UNCHANGED held

\* time passes: Date.now() - lastKeyPress grows (kept up to KEY_DELAY + 1)
ElapseSteps == {KEY_DELAY}
Elapse ==
    /\ keyAge <= KEY_DELAY
    /\ \E d \in ElapseSteps : keyAge' = Min(keyAge + d, KEY_DELAY + 1)
    /\ last' = Idle
    /\ UNCHANGED <<level, score, rows, isGameOver, currentWave, moveTimer,
                   player, cubes, rollingCubes, anims, markedCells,
                   advantageSpots, nextId, deaths, frames, held>>

\* one animation frame with the movement keys held during it
Frame ==
    /\ frames < MaxFrames
    /\ frames' = frames + 1
    /\ \E in \in MoveInputs :
          \E draws \in (IF WaveDue(G, in) THEN WaveDraws ELSE {NoDraws}) :
              Becomes(RunFrame(G, in, draws))
    /\ last' = Idle
    /\ UNCHANGED <<keyAge, held>>

Next == KeyDownSpace \/ KeyDownBackspace \/ Elapse \/ Frame

Spec == Init /\ [][Next]_vars

\* ------------------------------------------- games at the near edge
\* The second specification follows the player and the rolls frame by
\* frame.  Its games in progress have the player on the near bound of the
\* stage, z = rows/2 - 0.5, with cubes in the cells in front of it.
\* frames delivered in one run of SpecPlay
MaxPlayFrames == 2

PlayRows == {minRows, minRows + 2}
NearEdge(r) == r * Half - Half
\* the cells the cubes are drawn from: one and two rows in front of the
\* player, and the right neighbour of the first
PlaySlots(r) ==
    << <<Half, NearEdge(r) - Unit>>, <<Half, NearEdge(r) - 2 * Unit>>,
       <<Unit + Half, NearEdge(r) - Unit>> >>
PlayTypes == {"normal", "forbidden"}
\* the preset mark: none, or the cell two rows in front of the player
PlayMarks(r) == {<<>>, << <<Half, NearEdge(r) - 2 * Unit>> >>}

RECURSIVE PlayCubes(_, _, _, _)
PlayCubes(r, S, types, i) ==
    IF i > Len(PlaySlots(r)) THEN <<>>
    ELSE IF i \in S
         THEN <<[id |-> i, type |-> types[i], x |-> PlaySlots(r)[i][1],
                 z |-> PlaySlots(r)[i][2]]>> \o PlayCubes(r, S, types, i + 1)
         ELSE PlayCubes(r, S, types, i + 1)

\* a game in progress one frame before a movement tick, all cubes settled
Settled(r, cs, mk) ==
    [Constructed EXCEPT
       !.score = InitScore(r, cs, <<>>),
       !.rows = r,
       !.moveTimer = moveInterval - 1,
       !.player = [x |-> Half, z |-> NearEdge(r)],
       !.cubes = cs,
       !.markedCells = mk,
       !.nextId = 4]

\* n frames of roll callbacks with no tick between them
RECURSIVE Callbacks(_, _)
Callbacks(g, n) ==
    IF n = 0 THEN g ELSE Callbacks(RunAnims(g, g.anims, 1), n - 1)
\* the frames a roll has run when its cube reaches the target cell
RolledFrames == 19
\* the same game RolledFrames frames after the tick: every cube has rolled
\* into the next cell and its last callback is pending
Rolled(g) ==
    [Callbacks(MoveCubes([g EXCEPT !.moveTimer = 0]), RolledFrames)
        EXCEPT !.moveTimer = RolledFrames]

InitNearEdge ==
    \E r \in PlayRows :
    \E mk \in PlayMarks(r), S \in SUBSET (1..3) :
        /\ Cardinality(S) <= MaxCubes
        /\ \E types \in [S -> PlayTypes] :
              LET g == Settled(r, PlayCubes(r, S, types, 1), mk)
              IN  Starts(g) \/ Starts(Rolled(g))

\* the end of a wave: the list is empty, or its last cube has rolled off
\* the stage, one frame before the tick
\* <<level, currentWave>>: the first and the last wave of level 1, and the
\* last wave of the level whose 3 + level reaches the cap of rows
WaveStages == {<<1, 0>>, <<1, wavesPerLevel - 1>>,
               <<maxWaveRows - 3, wavesPerLevel - 1>>}
WaveRows == {minRows + 1, minRows + 2}
OffStage(r) == <<[id |-> 1, type |-> "normal", x |-> Half,
                  z |-> (r \div 2) * Unit + Unit]>>
WaveEnd(r, lv, w, cs) ==
    [Constructed EXCEPT
       !.level = lv,
       !.score = InitScore(r, <<>>, <<>>),
       !.rows = r,
       !.currentWave = w,
       !.moveTimer = moveInterval - 1,
       !.player = [x |-> Half, z |-> NearEdge(r)],
       !.cubes = cs,
       !.nextId = 2]

InitWaveEnd ==
    \E r \in WaveRows, st \in WaveStages :
    \E cs \in {<<>>, OffStage(r)} :
        /\ st[1] > 1 => (r = minRows + 1 /\ Len(cs) > 0)
        /\ Starts(WaveEnd(r, st[1], st[2], cs))

\* a wave generated moveInterval - 1 frames ago, one frame before its
\* first tick
InitFreshWave ==
    \E r \in WaveRows, draws \in WaveDraws :
        Starts([generateWave(WaveEnd(r, 1, 1, <<>>), draws)
                  EXCEPT !.moveTimer = moveInterval - 1])

InitPlay ==
    /\ InitConstructed \/ InitNearEdge \/ InitWaveEnd \/ InitFreshWave
    /\ keyAge = KEY_DELAY + 1
    /\ frames = 0
    /\ last = Idle
    /\ held = NoHold

\* the movement keys held during a frame: none, one, two on different
\* axes, or two opposite ones
PlayInputs ==
    {in \in KeyStates :
        Held(in) \in {{}, {"up"}, {"down"}, {"left"},
                      {"up", "left"}, {"up", "down"}}}

\* the fields updatePlayer and updateCubes share, as updatePlayer left them
AfterPlayer(g) ==
    [isGameOver |-> g.isGameOver, player |-> g.player,
     moveTimer |-> g.moveTimer, currentWave |-> g.currentWave,
     level |-> g.level]

\* one animation frame; last keeps the state before the frame, the keys
\* held and the state updatePlayer left
PlayFrame ==
    /\ frames < MaxPlayFrames
    /\ frames' = frames + 1
    /\ \E in \in PlayInputs :
          \E draws \in (IF WaveDue(G, in) THEN WaveDraws ELSE {NoDraws}) :
              /\ Becomes(RunFrame(G, in, draws))
              /\ last' = [op |-> "frame", pre |-> G, in |-> in,
                          mid |-> AfterPlayer(updatePlayer(G, in))]
    /\ UNCHANGED <<keyAge, held>>

NextPlay == KeyDownSpace \/ PlayFrame

SpecPlay == InitPlay /\ [][NextPlay]_vars

\* ------------------------------------------------------- keys held down
\* The third specification follows one key from keydown to keyup.  While a
\* key is held the browser repeats its keydown event; every event runs the
\* same handler.  held counts the keydown events of the hold and the calls
\* of toggleMark or triggerAllAdvantageSpots they made.
\* keydown events of one hold after the first
MaxRepeats == 2

GameUnchanged ==
    UNCHANGED <<level, score, rows, isGameOver, currentWave, moveTimer,
                player, cubes, rollingCubes, anims, markedCells,
                advantageSpots, nextId, deaths, frames>>

\* the Space keydown that is accepted already when exactly KEY_DELAY has
\* passed
HoldSpace_AtDelay ==
    /\ held.key \in {"none", "space"}
    /\ held.events <= MaxRepeats
    /\ IF keyAge >= KEY_DELAY
       THEN /\ keyAge' = 0
            /\ Becomes(toggleMark(G))
            /\ last' = [op |-> IF Len(markedCells) > 0 THEN "activate"
                                ELSE "mark",
                        pre |-> G]
            /\ UNCHANGED frames
            /\ held' = [key |-> "space", events |-> held.events + 1,
                        fired |-> held.fired + 1]
       ELSE /\ GameUnchanged
            /\ UNCHANGED <<keyAge, last>>
            /\ held' = [key |-> "space", events |-> held.events + 1,
                        fired |-> held.fired]

\* a keydown event of Space, the first of a hold or a repeat
HoldSpace ==
    /\ held.key \in {"none", "space"}
    /\ held.events <= MaxRepeats
    /\ IF keyAge > KEY_DELAY
       THEN /\ SpaceAccepted
            /\ held' = [key |-> "space", events |-> held.events + 1,
                        fired |-> held.fired + 1]
       ELSE /\ GameUnchanged
            /\ UNCHANGED <<keyAge, last>>
            /\ held' = [key |-> "space", events |-> held.events + 1,
                        fired |-> held.fired]

\* a keydown event of Backspace, the first of a hold or a repeat
HoldBackspace ==
    /\ held.key \in {"none", "backspace"}
    /\ held.events <= MaxRepeats
    /\ IF keyAge > KEY_DELAY
       THEN /\ BackspaceAccepted
            /\ held' = [key |-> "backspace", events |-> held.events + 1,
                        fired |-> held.fired
                                  + (IF Len(advantageSpots) > 0 THEN 1 ELSE 0)]
       ELSE /\ GameUnchanged
            /\ UNCHANGED <<keyAge, last>>
            /\ held' = [key |-> "backspace", events |-> held.events + 1,
                        fired |-> held.fired]

\* the keyup event: the hold is over
KeyUp ==
    /\ held.key # "none"
    /\ held' = NoHold
    /\ GameUnchanged
    /\ UNCHANGED <<keyAge, last>>

NextKeys == HoldSpace \/ HoldBackspace \/ KeyUp \/ Elapse

SpecKeys == Init /\ [][NextKeys]_vars

\* -------------------------------------------- key events between frames
\* The fourth specification delivers frames between the key events of a
\* hold.  It starts from the constructed game and from the games in
\* progress that are in the middle of a move interval with at most one cube
\* left.
InitDelay ==
    /\ Init
    /\ moveTimer < moveInterval - 1
    /\ Len(cubes) <= 1 \/ rows = startRows

NextDelay == HoldSpace \/ HoldBackspace \/ KeyUp \/ Elapse \/ Frame

SpecDelay == InitDelay /\ [][NextDelay]_vars

\* ------------------------------------------------------ the long run
\* The fifth specification delivers frames over several move intervals
\* with no movement key held.  The player stands in column 0.5 on the near
\* bound; the cubes are settled in the two columns to its right and roll
\* past it.
\* frames delivered in one run of SpecRun
MaxRunFrames == 400

RunRows == {minRows + 1, minRows + 2}
\* moveTimer of the first state: the first tick is the frame that brings
\* frames to moveInterval - RunTimer
RunTimer == moveInterval - 10
\* the row of cells at the near bound
EdgeRow(r) == MathFloor(NearEdge(r))
\* the cells the cubes are drawn from: two in the row at the near bound,
\* one a row behind
RunSlots(r) ==
    << <<Unit + Half, EdgeRow(r)>>, <<2 * Unit + Half, EdgeRow(r)>>,
       <<Unit + Half, EdgeRow(r) - Unit>> >>
\* the ticks after which the cube of the last slot has left the list: two
\* rolls to the near edge and the tick that drops it
RunTicks == 3
\* the preset mark: none, or the cell of the first slot
RunMarks(r) == {<<>>, << <<Unit + Half, EdgeRow(r)>> >>}

RECURSIVE RunCubes(_, _, _, _)
RunCubes(r, S, types, i) ==
    IF i > Len(RunSlots(r)) THEN <<>>
    ELSE IF i \in S
         THEN <<[id |-> i, type |-> types[i], x |-> RunSlots(r)[i][1],
                 z |-> RunSlots(r)[i][2]]>> \o RunCubes(r, S, types, i + 1)
         ELSE RunCubes(r, S, types, i + 1)

InitRun ==
    /\ \E r \in RunRows :
       \E mk \in RunMarks(r), S \in SUBSET (1..3) :
           /\ Cardinality(S) <= MaxCubes
           /\ \E types \in [S -> PlayTypes] :
                 Starts([Settled(r, RunCubes(r, S, types, 1), mk)
                           EXCEPT !.moveTimer = RunTimer])
    /\ keyAge = KEY_DELAY + 1
    /\ frames = 0
    /\ last = Idle
    /\ held = NoHold

\* the draws of the waves generated during the run: the first cube of the
\* wave Normal or Forbidden
RunDraws == {NoDraws, [k \in 1..MaxSpecial |-> IF k = 1 THEN 85 ELSE 0]}

\* the frames in a row, up to the last one delivered, that began and ended
\* with the cube list empty
Waited == IF last.op = "frame" THEN last.wait ELSE 0

\* one animation frame with no movement key held
RunStep ==
    /\ frames < MaxRunFrames
    /\ frames' = frames + 1
    /\ \E draws \in (IF WaveDue(G, NoKeys) THEN RunDraws ELSE {NoDraws}) :
          Becomes(RunFrame(G, NoKeys, draws))
    /\ last' = [op |-> "frame", pre |-> G, in |-> NoKeys,
                mid |-> AfterPlayer(updatePlayer(G, NoKeys)),
                wait |-> IF Len(cubes) = 0 /\ Len(cubes') = 0
                         THEN Waited + 1 ELSE 0]
    /\ UNCHANGED <<keyAge, held>>

\* the one Space of the run, pressed while cubes are on the stage
RunSpace == Len(cubes) > 0 /\ KeyDownSpace

NextRun == RunSpace \/ RunStep

SpecRun == InitRun /\ [][NextRun]_vars

\* ------------------------------------- the variant of src/unnamed/part_000
\* In the variant Space calls toggleMark, which always lays a mark, and
\* Enter activates.  The sixth specification calls the variant's toggleMark
\* on games in progress with the player in the cells around the cubes.
\* toggleMark of the variant keeping the marks that are there
toggleMarkVariant_NoClear(g) ==
    LET key == <<MathFloor(g.player.x) + Half, MathFloor(g.player.z)>>
    IN  IF \E i \in 1..Len(g.markedCells) : g.markedCells[i] = key THEN g
        ELSE [g EXCEPT !.markedCells = Append(@, key)]

\* toggleMark of the variant: clear the Map of marks, then set the mark of
\* the player's cell
toggleMarkVariant(g) ==
    LET key == <<MathFloor(g.player.x) + Half, MathFloor(g.player.z)>>
        cleared == IF Len(g.markedCells) > 0 THEN <<>> ELSE g.markedCells
    IN  [g EXCEPT !.markedCells = Append(cleared, key)]

\* where the player stands: on the left bound, on and off the cell
\* centres, on cell borders
VariantPlayers ==
    [x : {-(cols * Half) + Half, -playerSpeed, Unit, Unit + Half - playerSpeed},
     z : {-Unit + playerSpeed, 0, playerSpeed, Half, Unit}]

InitVariant ==
    /\ \E st \in InitStages, mk \in InitMarks, p \in VariantPlayers :
       \E S \in SUBSET (1..Len(Slots)) :
           /\ Cardinality(S) <= MaxCubes
           /\ \E types \in [S -> CubeTypes] :
                 Starts([InProgress(st[1], SlotCubes(S, types, 1), mk, <<>>,
                                    0, st[2]) EXCEPT !.player = p])
    /\ keyAge = KEY_DELAY + 1
    /\ frames = 0
    /\ last = Idle
    /\ held = NoHold

\* the variant's keydown handler on a Space that passes the KEY_DELAY test
VariantSpace ==
    /\ keyAge > KEY_DELAY
    /\ keyAge' = 0
    /\ Becomes(toggleMarkVariant(G))
    /\ last' = [op |-> "remark", pre |-> G]
    /\ UNCHANGED <<frames, held>>

NextVariant == VariantSpace \/ Elapse

SpecVariant == InitVariant /\ [][NextVariant]_vars

\* ------------------------------------------------- the two cell keys
\* The seventh specification applies toggleMark to positions chosen as
\* inputs of the two cell conventions: the player on and off the cell
\* centres and on cell borders, one settled cube in a cell around it or in
\* the same one.
CellRows == minRows + 2
CellPlayers ==
    [x : {-playerSpeed, 0, Half - playerSpeed, Half, Unit - playerSpeed, Unit},
     z : {-Unit - playerSpeed, -Unit, -Half, -playerSpeed, 0,
          Half - playerSpeed}]
CellCubes ==
    [x : {-Half, Half, Unit + Half},
     z : {-2 * Unit, -Unit - Half, -Unit, -Half, 0, Unit}]

InitCells ==
    /\ \E p \in CellPlayers, c \in CellCubes, t \in CubeTypes :
          Starts([Settled(CellRows,
                          <<[id |-> 1, type |-> t, x |-> c.x, z |-> c.z]>>,
                          <<>>)
                    EXCEPT !.player = p, !.moveTimer = 0])
    /\ keyAge = KEY_DELAY + 1
    /\ frames = 0
    /\ last = Idle
    /\ held = NoHold

NextCells == KeyDownSpace \/ Elapse

SpecCells == InitCells /\ [][NextCells]_vars

\* ------------------------------------------------------------ properties
\* the cell key (floor(x) + 0.5, floor(z)) of a cube or of the player
CellKeyOf(c) == <<(c.x \div Unit) * Unit + Half, (c.z \div Unit) * Unit>>
\* the cubes of list cs whose cell key is key
Matched(cs, key) == {i \in 1..Len(cs) : CellKeyOf(cs[i]) = key}
ForbiddenIn(cs, I) == Cardinality({i \in I : cs[i].type = "forbidden"})
OthersIn(cs, I) == Cardinality({i \in I : cs[i].type # "forbidden"})
JustActivated == last.op = "activate"
JustMarked == last.op = "mark"
JustTriggered == last.op = "trigger"
ActivatedKey == last.pre.markedCells[1]

\* C1: every reachable state has rows >= 5 or isGameOver; the
\* handleForbiddenCube step that takes rows below 5 sets isGameOver in the
\* same step, from a mark activation as from an area trigger.
C1_RowsFloorOrGameOver == rows >= 5 \/ isGameOver

\* an area trigger at rows = 5 has cleared a Forbidden cube
C1_Witness ==
    /\ JustTriggered
    /\ last.pre.rows = 5
    /\ ~ last.pre.isGameOver
    /\ rows < 5
    /\ isGameOver

\* C2: a mark activation matching f Forbidden and n other cubes changes
\* score by exactly 100*n - 1000*f and rows by exactly -f.
C2_ActivationScore ==
    JustActivated =>
        LET I == Matched(last.pre.cubes, ActivatedKey)
            f == ForbiddenIn(last.pre.cubes, I)
            n == OthersIn(last.pre.cubes, I)
        IN  /\ score = last.pre.score + 100 * n - 1000 * f
            /\ rows = last.pre.rows - f

\* an activation has matched a Forbidden cube
C2_Witness ==
    /\ JustActivated
    /\ ForbiddenIn(last.pre.cubes, Matched(last.pre.cubes, ActivatedKey)) = 1
    /\ score = last.pre.score - 1000
    /\ rows = last.pre.rows - 1

\* C3: after a mark activation no cube whose cell key equals the marked cell
\* remains in the cube list, a Forbidden cube included.
C3_MatchedCubesRemoved ==
    JustActivated => Matched(cubes, ActivatedKey) = {}

\* an activation has removed a Forbidden cube and left another cube
C3_Witness ==
    /\ JustActivated
    /\ ForbiddenIn(last.pre.cubes, Matched(last.pre.cubes, ActivatedKey)) = 1
    /\ Len(cubes) = Len(last.pre.cubes) - 1
    /\ Len(cubes) > 0

\* C4: at most one mark is ever active.
C4_AtMostOneMark == Len(markedCells) <= 1

\* a mark laid by the player after a frame, away from the preset one
C4_Witness ==
    /\ JustMarked
    /\ Len(markedCells) = 1
    /\ frames > 0
    /\ Len(last.pre.markedCells) = 0

\* C5: toggleMark without a mark adds exactly the mark of the player's cell
\* (floor(x) + 0.5, floor(z)) and leaves score, rows, cubes and areas alone;
\* toggleMark with a mark ends with no mark; no other step changes the mark,
\* so mark and activate strictly alternate.
C5_Step ==
    /\ last'.op = "mark" =>
          /\ Len(markedCells) = 0
          /\ markedCells' = <<CellKeyOf(player)>>
          /\ UNCHANGED <<score, rows, cubes, advantageSpots>>
    /\ last'.op = "activate" =>
          /\ Len(markedCells) = 1
          /\ markedCells' = <<>>
    /\ last'.op \notin {"mark", "activate"} => UNCHANGED markedCells
C5_ToggleAlternates == [][C5_Step]_vars

\* a mark laid in a cell the player has walked into
C5_Witness ==
    /\ JustMarked
    /\ markedCells = <<CellKeyOf(player)>>
    /\ CellKeyOf(player) # <<Half, 0>>

\* C6: activating a mark that no cube matches leaves score, rows, the cube
\* list and the pending areas unchanged and removes the mark.
C6_EmptyActivation ==
    (JustActivated /\ Matched(last.pre.cubes, ActivatedKey) = {}) =>
        /\ score = last.pre.score
        /\ rows = last.pre.rows
        /\ cubes = last.pre.cubes
        /\ advantageSpots = last.pre.advantageSpots
        /\ markedCells = <<>>

\* an activation that matched none of the cubes present
C6_Witness ==
    /\ JustActivated
    /\ Matched(last.pre.cubes, ActivatedKey) = {}
    /\ Len(last.pre.cubes) > 0
    /\ markedCells = <<>>

\* the 3x3 block of cell centres around key
Block(key) == {<<key[1] + dx, key[2] + dz>> :
                  dx \in {-Unit, 0, Unit}, dz \in {-Unit, 0, Unit}}
\* a marker position within the stage: |x| <= cols/2 and |z| <= rows/2
OnStage(m) == /\ -cols * Unit <= 2 * m[1] /\ 2 * m[1] <= cols * Unit
              /\ -rows * Unit <= 2 * m[2] /\ 2 * m[2] <= rows * Unit
Range(q) == {q[i] : i \in 1..Len(q)}
AdvantageMatched ==
    \E i \in Matched(last.pre.cubes, ActivatedKey) :
        last.pre.cubes[i].type = "advantage"

\* C7: a mark activation that matches an Advantage cube leaves exactly one
\* pending area keyed by the marked cell, laid by this activation, with all
\* its marker cells within the stage; an activation that matches only Normal
\* or Forbidden cubes registers no area.
C7_AdvantageArea ==
    JustActivated =>
        IF AdvantageMatched
        THEN LET E == {i \in 1..Len(advantageSpots) :
                          advantageSpots[i].key = ActivatedKey}
             IN  /\ Cardinality(E) = 1
                 /\ \A i \in E :
                      /\ \A m \in Range(advantageSpots[i].markers) : OnStage(m)
                      /\ Range(advantageSpots[i].markers) =
                            {m \in Block(ActivatedKey) : OnStage(m)}
                 /\ \A i \in 1..Len(advantageSpots) :
                      advantageSpots[i].key # ActivatedKey =>
                          \E j \in 1..Len(last.pre.advantageSpots) :
                              last.pre.advantageSpots[j] = advantageSpots[i]
        ELSE advantageSpots = last.pre.advantageSpots

\* an Advantage cube cleared in a cell at the far edge of a 5-row stage: the
\* area is clipped
C7_Witness ==
    /\ JustActivated
    /\ AdvantageMatched
    /\ \E i \in 1..Len(advantageSpots) :
          /\ advantageSpots[i].key = ActivatedKey
          /\ Len(advantageSpots[i].markers) < 9
          /\ Len(advantageSpots[i].markers) > 0

\* the cube's rounded grid cell lies within Chebyshev distance 1 of key
InAreaOf(c, key) ==
    LET cx == (c.x \div Unit) * Unit + Half
        cz == (c.z \div Unit) * Unit + Half
    IN  /\ -Unit <= cx - key[1] /\ cx - key[1] <= Unit
        /\ -Unit <= cz - key[2] /\ cz - key[2] <= Unit
Without(cs, I) == LET keep(j) == j \notin I
                  IN  [k \in 1..(Len(cs) - Cardinality(I)) |->
                         cs[CHOOSE j \in 1..Len(cs) :
                              /\ keep(j)
                              /\ Cardinality({h \in 1..j : keep(h)}) = k]]

\* C8 (as claimed): triggering the one pending area keyed by column c, row r
\* removes exactly the settled cubes in the 3x3 block of cells c-1..c+1 by
\* r-1..r+1.
C8_Exact3x3Removed ==
    (JustTriggered /\ Len(last.pre.advantageSpots) = 1) =>
        LET key == last.pre.advantageSpots[1].key
            pc == last.pre.cubes
            I == {j \in 1..Len(pc) :
                     /\ CellKeyOf(pc[j]) \in Block(key)
                     /\ pc[j].id \notin last.pre.rollingCubes}
        IN  cubes = Without(pc, I)

\* C9: for each pending area processed by triggerAllAdvantageSpots, with f
\* Forbidden and n other cubes in the area, score changes by 200*n - 1000*f,
\* rows by -f, the f+n cubes leave the cube list and the area leaves
\* advantageSpots.
C9_AreaScore ==
    JustTriggered =>
        /\ Len(last.steps) = Len(last.pre.advantageSpots) + 1
        /\ last.steps[1] = last.pre
        /\ last.steps[Len(last.steps)] = G
        /\ \A i \in 1..Len(last.pre.advantageSpots) :
              LET s == last.steps[i]
                  t == last.steps[i + 1]
                  key == last.pre.advantageSpots[i].key
                  I == {j \in 1..Len(s.cubes) : InAreaOf(s.cubes[j], key)}
                  f == ForbiddenIn(s.cubes, I)
                  n == OthersIn(s.cubes, I)
              IN  /\ t.score = s.score + 200 * n - 1000 * f
                  /\ t.rows = s.rows - f
                  /\ t.cubes = Without(s.cubes, I)
                  /\ \A j \in 1..Len(t.advantageSpots) :
                        t.advantageSpots[j].key # key
                  /\ Len(t.advantageSpots) = Len(s.advantageSpots) - 1

\* a trigger whose first area held two Forbidden cubes
C9_Witness ==
    /\ JustTriggered
    /\ LET key == last.pre.advantageSpots[1].key
           pc == last.pre.cubes
           I == {j \in 1..Len(pc) : InAreaOf(pc[j], key)}
       IN  /\ ForbiddenIn(pc, I) = 2
           /\ last.steps[2].rows = last.pre.rows - 2
           /\ last.steps[2].score = last.pre.score - 2000

\* C10: after triggerAllAdvantageSpots advantageSpots is empty, a cube lying
\* in two overlapping areas has been scored and removed exactly once, and
\* markedCells is unchanged.
C10_TriggerAll ==
    JustTriggered =>
        LET pc == last.pre.cubes
            ps == last.pre.advantageSpots
            I == {j \in 1..Len(pc) :
                     \E i \in 1..Len(ps) : InAreaOf(pc[j], ps[i].key)}
        IN  /\ advantageSpots = <<>>
            /\ markedCells = last.pre.markedCells
            /\ score = last.pre.score + 200 * OthersIn(pc, I)
                                      - 1000 * ForbiddenIn(pc, I)
            /\ rows = last.pre.rows - ForbiddenIn(pc, I)
            /\ cubes = Without(pc, I)

\* a trigger of two overlapping areas with a cube in both and a mark pending
C10_Witness ==
    /\ JustTriggered
    /\ Len(last.pre.advantageSpots) = 2
    /\ Len(last.pre.markedCells) = 1
    /\ \E j \in 1..Len(last.pre.cubes) :
          /\ InAreaOf(last.pre.cubes[j], last.pre.advantageSpots[1].key)
          /\ InAreaOf(last.pre.cubes[j], last.pre.advantageSpots[2].key)
          /\ last.pre.cubes[j].type = "normal"
    /\ advantageSpots = <<>>
    /\ markedCells = last.pre.markedCells

\* ------------------------------------------- properties of the frame
JustFramed == last.op = "frame"
\* a frame in which updatePlayer ran
PlayerUpdated == JustFramed /\ ~ last.pre.isGameOver
\* the centre of the grid cell of a position
CellOf(p) == <<(p.x \div Unit) * Unit + Half, (p.z \div Unit) * Unit + Half>>
Clamp(v, lo, hi) == IF v < lo THEN lo ELSE IF v > hi THEN hi ELSE v
\* the destination asked for by the keys held: playerSpeed on each pressed
\* axis, clamped to the stage of r rows
Asked(p, in, r) ==
    LET dx == (IF in.right THEN playerSpeed ELSE 0)
              - (IF in.left THEN playerSpeed ELSE 0)
        dz == (IF in.down THEN playerSpeed ELSE 0)
              - (IF in.up THEN playerSpeed ELSE 0)
    IN  [x |-> Clamp(p.x + dx, -(cols * Half - Half), cols * Half - Half),
         z |-> Clamp(p.z + dz, -(r * Half - Half), r * Half - Half)]
\* the cubes of state s in the cell of position p, settled or rolling
SettledAt(s, p) ==
    {i \in 1..Len(s.cubes) :
        s.cubes[i].id \notin s.rollingCubes /\ CellOf(s.cubes[i]) = CellOf(p)}
RollingAt(s, p) ==
    {i \in 1..Len(s.cubes) :
        s.cubes[i].id \in s.rollingCubes /\ CellOf(s.cubes[i]) = CellOf(p)}

\* C11: in updatePlayer a move whose clamped destination lies in the cell of
\* a cube that is in the list and not rolling leaves the player where it
\* was; every other move puts the player exactly on the clamped
\* destination, a cell occupied only by rolling cubes included.
C11_MoveOrBlocked ==
    PlayerUpdated =>
        LET dest == Asked(last.pre.player, last.in, last.pre.rows)
        IN  player = IF SettledAt(last.pre, dest) # {} THEN last.pre.player
                     ELSE dest

\* the player has walked up against a settled cube and stayed in place
C11_Witness ==
    /\ PlayerUpdated
    /\ last.in.up
    /\ SettledAt(last.pre, Asked(last.pre.player, last.in, last.pre.rows)) # {}
    /\ player = last.pre.player
    /\ Asked(last.pre.player, last.in, last.pre.rows) # last.pre.player

\* C12 (as claimed): after every execution of updatePlayer while the game is
\* not over the player lies within the stage bounds of the current rows,
\* -cols/2 + 0.5 <= x <= cols/2 - 0.5 and -rows/2 + 0.5 <= z <= rows/2 - 0.5,
\* also in the frames after a Forbidden clear has taken a row away.
C12_PlayerWithinBounds ==
    PlayerUpdated =>
        /\ -(cols * Half - Half) <= player.x
        /\ player.x <= cols * Half - Half
        /\ -(last.pre.rows * Half - Half) <= player.z
        /\ player.z <= last.pre.rows * Half - Half

\* C13: whenever updatePlayer runs and a cube that is in the list and in
\* rollingCubes shares the cell of the player after the move step,
\* isGameOver is true when updatePlayer returns; a cube that is not rolling
\* never kills the player.
C13_CrushedByRollingOnly ==
    PlayerUpdated =>
        (last.mid.isGameOver <=> RollingAt(last.pre, last.mid.player) # {})

\* the player has walked into the cell of a rolling cube and was killed
C13_Witness ==
    /\ PlayerUpdated
    /\ RollingAt(last.pre, last.mid.player) # {}
    /\ CellOf(last.mid.player) # CellOf(last.pre.player)
    /\ last.mid.isGameOver
    /\ isGameOver

\* C14 (as claimed): once isGameOver is true the per-frame update never runs
\* again: updateCubes does not run in the frame in which updatePlayer found
\* the crush, and no later frame runs updatePlayer or updateCubes, so
\* moveTimer, the player's position, currentWave and level keep the values
\* they had when the game ended and no cube starts a new roll.
C14_NoUpdateAfterGameOver ==
    (JustFramed /\ last.mid.isGameOver) =>
        /\ moveTimer = last.mid.moveTimer
        /\ player = last.mid.player
        /\ currentWave = last.mid.currentWave
        /\ level = last.mid.level
        /\ \A i \in 1..Len(anims) :
              \E j \in 1..Len(last.pre.anims) :
                  last.pre.anims[j].id = anims[i].id

\* C15: isGameOver, once true, is never reset; it turns from false to true
\* only in a frame in which a rolling cube's cell equals the player's cell
\* (updatePlayer) or in a step in which rows has just dropped below 5
\* (handleForbiddenCube).
C15_Step ==
    /\ isGameOver => isGameOver'
    /\ (~ isGameOver /\ isGameOver') =>
          \/ /\ last'.op = "frame"
             /\ \E i \in 1..Len(cubes) :
                   /\ cubes[i].id \in rollingCubes
                   /\ CellOf(cubes[i]) = CellOf(player')
          \/ /\ last'.op \in {"activate", "trigger"}
             /\ rows >= 5
             /\ rows' < 5
C15_GameOverCauses == [][C15_Step]_vars

\* a mark activation at rows = 5 has cleared a Forbidden cube and ended the
\* game; later frames have left it ended
C15_Witness ==
    /\ isGameOver
    /\ rows = 4
    /\ deaths = 1
    /\ JustFramed
    /\ last.pre.isGameOver

\* a frame whose movement tick generated a wave
WaveGenerated == JustFramed /\ currentWave # last.pre.currentWave
RowsForLevel(lv) == IF 3 + lv < 14 THEN 3 + lv ELSE 14

\* C16: right after generateWave the list holds exactly cols * min(3 + level,
\* 14) cubes, 8 per row, at the pairwise distinct positions x = j - 4 + 0.5,
\* z = -rows/2 - i - 0.5 (j in 0..7, i in 0..numRows-1), all beyond the far
\* edge z < -rows/2, and none of the cubes that were in the list before.
C16_WaveLayout ==
    WaveGenerated =>
        /\ Len(cubes) = 8 * RowsForLevel(level)
        /\ \A k \in 1..Len(cubes) :
              LET i == (k - 1) \div 8
                  j == (k - 1) % 8
              IN  /\ cubes[k].x = (j - 4) * Unit + Half
                  /\ 2 * cubes[k].z = -(rows * Unit) - 2 * i * Unit - Unit
                  /\ 2 * cubes[k].z < -(rows * Unit)
                  /\ cubes[k].id \notin Ids(last.pre.cubes)
        /\ \A k, h \in 1..Len(cubes) :
              (cubes[k].x = cubes[h].x /\ cubes[k].z = cubes[h].z) => k = h

\* the wave of level 12, where the cap of 14 rows cuts 3 + level, generated
\* on an even number of rows after the last cube of the old wave fell off
C16_Witness ==
    /\ WaveGenerated
    /\ level = 12
    /\ Len(cubes) = 112
    /\ rows = 6
    /\ Len(last.pre.cubes) = 1

\* the frame ran a movement tick
Ticked == PlayerUpdated /\ last.pre.moveTimer + 1 >= 180
\* the tick found the list empty: no cube, or only cubes that the tick
\* removed because they start their roll beyond the near edge
FoundEmpty ==
    /\ Ticked
    /\ \A i \in 1..Len(last.pre.cubes) :
          2 * last.pre.cubes[i].z >= last.pre.rows * Unit

\* C17: on a movement tick that finds the list empty currentWave goes up by
\* one; if it is then below 4 a wave is generated at the same level,
\* otherwise level goes up by exactly one, currentWave is reset to 0 and a
\* wave of min(3 + level, 14) rows of the new level is generated; no other
\* step changes level or currentWave.
C17_WaveProgress ==
    /\ currentWave \in 0..3
    /\ (JustFramed /\ FoundEmpty) =>
          /\ IF last.pre.currentWave + 1 < 4
             THEN /\ currentWave = last.pre.currentWave + 1
                  /\ level = last.pre.level
             ELSE /\ currentWave = 0
                  /\ level = last.pre.level + 1
          /\ Len(cubes) = 8 * RowsForLevel(level)
    /\ (last.op # "none" /\ ~ FoundEmpty) =>
          /\ currentWave = last.pre.currentWave
          /\ level = last.pre.level

\* the fourth wave of level 11 is over: level 12 begins with wave 0
C17_Witness ==
    /\ JustFramed
    /\ FoundEmpty
    /\ last.pre.currentWave = 3
    /\ last.pre.level = 11
    /\ level = 12
    /\ currentWave = 0
    /\ Len(cubes) = 112

\* C18 (as claimed): across every step level never decreases, currentWave
\* never decreases and rows never increases.
C18_Monotonic ==
    [][level' >= level /\ currentWave' >= currentWave /\ rows' <= rows]_vars

\* C18 (amended): across every step level never decreases and rows never
\* increases; currentWave never decreases except in the step that raises
\* level by one, which resets it to 0.
C18_StepAmended ==
    /\ level' >= level
    /\ rows' <= rows
    /\ \/ currentWave' >= currentWave
       \/ level' = level + 1 /\ currentWave' = 0
C18_MonotonicButWaveReset == [][C18_StepAmended]_vars

\* level 2 has begun: the wave counter fell from 3 to 0
C18_Witness ==
    /\ JustFramed
    /\ level = 2
    /\ last.pre.level = 1
    /\ currentWave < last.pre.currentWave

\* the cube of list cs with identity id
CubeOf(cs, id) == cs[CHOOSE i \in 1..Len(cs) : cs[i].id = id]

\* C19 (as claimed): every roll started by updateCubes moves a settled cube
\* exactly one grid cell toward the player: the roll aims at the z before
\* the roll plus 1, the cube settles on that z, and x is unchanged; also for
\* the cubes of a wave generated on an even number of rows.
C19_OneCellPerRoll ==
    JustFramed =>
        /\ \A k \in 1..Len(anims) :
              (anims[k].id \in Ids(last.pre.cubes) \ last.pre.rollingCubes) =>
                  anims[k].tz = CubeOf(last.pre.cubes, anims[k].id).z + Unit
        /\ \A k \in 1..Len(last.pre.anims) :
              (last.pre.anims[k].progress >= Unit
               /\ last.pre.anims[k].id \in Ids(cubes)) =>
                  CubeOf(cubes, last.pre.anims[k].id).z = last.pre.anims[k].tz
        /\ \A i \in 1..Len(cubes) :
              cubes[i].id \in Ids(last.pre.cubes) =>
                  cubes[i].x = CubeOf(last.pre.cubes, cubes[i].id).x

\* C20 (as claimed): during one uninterrupted hold of Space, repeated
\* keydown events with no keyup between them, toggleMark runs at most once
\* however long the key is held; likewise Backspace and
\* triggerAllAdvantageSpots.
C20_OncePerHold == held.fired <= 1

\* ------------------------------------------ properties of the key events
\* the step is a keydown event of Space or Backspace
KeyEvent == held'.key # "none" /\ held'.events = held.events + 1

\* C21: a Space or Backspace keydown 100 ms or less after the last accepted
\* one (of either key; a Backspace with no pending area counts as accepted)
\* runs neither toggleMark nor triggerAllAdvantageSpots and leaves the
\* timestamp alone; a later one is accepted and restarts the delay, so two
\* accepted events are more than 100 ms apart; frames move the player
\* whatever the delay.
C21_Step ==
    /\ (KeyEvent /\ keyAge <= 100) =>
          /\ UNCHANGED <<markedCells, advantageSpots, score, rows, cubes,
                         isGameOver, keyAge>>
          /\ held'.fired = held.fired
    /\ (KeyEvent /\ keyAge > 100) =>
          /\ keyAge' = 0
          /\ last'.op \in {"mark", "activate", "trigger", "backspace"}
    /\ (keyAge' < keyAge \/ held'.fired > held.fired) => keyAge > 100
    /\ ~ KeyEvent =>
          UNCHANGED <<markedCells, advantageSpots, score, rows>>
C21_KeyDelay == [][C21_Step]_vars

\* within the delay of an accepted Space a repeated keydown has been ignored
\* and a frame has moved the player
C21_Witness ==
    /\ held.key = "space"
    /\ held.events >= 2
    /\ held.fired = 1
    /\ keyAge = 0
    /\ last.op = "none"
    /\ frames = 1
    /\ player.x # Half

\* the cubes of the list that were created during the last frame
Fresh == {i \in 1..Len(cubes) : cubes[i].id >= last.pre.nextId}

\* C22: while the game is not over an empty cube list gets a new wave at
\* the next movement tick, so the list is never empty for moveInterval
\* frames in a row; the wave counter advances exactly once for it; a wave is
\* generated only by a tick that finds no cube left on the stage, never by a
\* key event and never while cubes remain.
C22_WaveWhenEmpty ==
    /\ ~ isGameOver => Waited < moveInterval
    /\ (PlayerUpdated /\ Len(last.pre.cubes) = 0
          /\ last.pre.moveTimer = moveInterval - 1) => Fresh # {}
    /\ (JustFramed /\ Fresh # {}) =>
          /\ FoundEmpty
          /\ Ids(cubes) \cap Ids(last.pre.cubes) = {}
          /\ \/ /\ currentWave = last.pre.currentWave + 1
                /\ level = last.pre.level
             \/ /\ last.pre.currentWave = wavesPerLevel - 1
                /\ currentWave = 0
                /\ level = last.pre.level + 1
    /\ (last.op # "none" /\ Fresh = {}) =>
          /\ currentWave = last.pre.currentWave
          /\ level = last.pre.level
    /\ (last.op # "none" /\ ~ JustFramed) => Fresh = {}

\* the player cleared the last cube right after a tick and the next tick,
\* moveInterval frames later, has generated the wave
C22_Witness ==
    /\ JustFramed
    /\ frames = 2 * moveInterval - RunTimer
    /\ Len(last.pre.cubes) = 0
    /\ score = last.pre.score
    /\ score % 200 = 100
    /\ Fresh # {}
    /\ currentWave = 1
    /\ ~ isGameOver

JustRemarked == last.op = "remark"

\* C23: in the variant of src/unnamed/part_000 toggleMark with a mark
\* active replaces it: afterwards there is exactly one mark, keyed by the
\* player's current cell (floor(x) + 0.5, floor(z)); calling toggleMark
\* again without the player moving gives the same mark state; score, rows
\* and the cube list are unchanged by marking.
C23_VariantReplacesMark ==
    JustRemarked =>
        /\ Len(markedCells) = 1
        /\ markedCells[1] = CellKeyOf(player)
        /\ toggleMarkVariant(G).markedCells = markedCells
        /\ (Len(last.pre.markedCells) = 1
              /\ last.pre.markedCells[1] = CellKeyOf(last.pre.player))
           => markedCells = last.pre.markedCells
        /\ score = last.pre.score
        /\ rows = last.pre.rows
        /\ cubes = last.pre.cubes

\* a mark in another cell was active and has been replaced, next to a cube
C23_Witness ==
    /\ JustRemarked
    /\ Len(last.pre.markedCells) = 1
    /\ last.pre.markedCells[1] # CellKeyOf(player)
    /\ markedCells = <<CellKeyOf(player)>>
    /\ Len(cubes) > 0

\* the last step started a roll: a roll is under way for a cube that was
\* not rolling before
RollStarted ==
    \E i \in 1..Len(anims) : anims[i].id \notin last.pre.rollingCubes

\* C24: moveTimer goes up by exactly one in every frame in which the game
\* is not over and by nothing else, and 0 <= moveTimer < moveInterval after
\* every call of updateCubes; rolls are started and the wave check is made
\* exactly in every moveInterval-th call of updateCubes, counted from the
\* RunTimer calls made since the last tick before the run.
C24_TickEveryInterval ==
    /\ 0 <= moveTimer /\ moveTimer < moveInterval
    /\ PlayerUpdated =>
          /\ moveTimer = (last.pre.moveTimer + 1) % moveInterval
          /\ (RollStarted \/ Fresh # {}) <=>
                last.pre.moveTimer = moveInterval - 1
          /\ (RollStarted \/ Fresh # {}) <=>
                (RunTimer + frames) % moveInterval = 0
    /\ (last.op # "none" /\ ~ PlayerUpdated) =>
          /\ moveTimer = last.pre.moveTimer
          /\ ~ RollStarted
          /\ Fresh = {}

\* the second tick of a run, moveInterval calls after the first, has
\* started the rolls of the cubes left
C24_Witness ==
    /\ PlayerUpdated
    /\ frames = 2 * moveInterval - RunTimer
    /\ moveTimer = 0
    /\ last.pre.moveTimer = moveInterval - 1
    /\ RollStarted
    /\ Len(cubes) > 0

AnimOf(id) == anims[CHOOSE i \in 1..Len(anims) : anims[i].id = id]

\* C25: while the game is not over and frames are delivered every cube of
\* the list is removed in the end, also when the player clears nothing:
\* every tick sends each settled cube a cell or more toward the near edge
\* or drops it, a cube settled at z > rows/2 is dropped by the next tick,
\* and after RunTicks ticks no cube of the first state is left.
C25_CubesFallOff ==
    /\ Ticked =>
          \A i \in 1..Len(last.pre.cubes) :
              LET c == last.pre.cubes[i]
              IN  /\ 2 * c.z > last.pre.rows * Unit => c.id \notin Ids(cubes)
                  /\ c.id \in Ids(cubes) =>
                        /\ c.id \in rollingCubes
                        /\ AnimOf(c.id).tz >= c.z + Unit
    /\ (~ isGameOver
          /\ frames >= (RunTicks - 1) * moveInterval + moveInterval - RunTimer)
       => \A i \in 1..Len(cubes) : cubes[i].id > Len(RunSlots(rows))

\* with no key pressed the third tick has dropped the last cube of the
\* first state, the one that began a row behind, from z > rows/2
C25_Witness ==
    /\ Ticked
    /\ keyAge > KEY_DELAY
    /\ frames = 2 * moveInterval + moveInterval - RunTimer
    /\ Len(last.pre.cubes) = 1
    /\ last.pre.cubes[1].id = 3
    /\ 2 * last.pre.cubes[1].z > last.pre.rows * Unit
    /\ 3 \notin Ids(cubes)
    /\ ~ isGameOver

\* C26: a cube is in rollingCubes exactly from the tick that starts its
\* roll until the call of the roll's closure that snaps it; no cube has two
\* rolls under way; a cube taken off the list while it rolls is never put
\* back, its roll goes on and its snap still takes it out of rollingCubes.
C26_RollingSet ==
    /\ rollingCubes = {anims[i].id : i \in 1..Len(anims)}
    /\ \A i, j \in 1..Len(anims) : anims[i].id = anims[j].id => i = j
    /\ JustFramed =>
          /\ \A i \in 1..Len(last.pre.anims) :
                LET a == last.pre.anims[i]
                IN  IF a.progress >= Unit THEN a.id \notin rollingCubes
                    ELSE /\ a.id \in rollingCubes
                         /\ AnimOf(a.id).progress = a.progress + rollStep
          /\ \A id \in rollingCubes \ last.pre.rollingCubes :
                /\ Ticked
                /\ id \in Ids(last.pre.cubes)
          /\ Ticked => Ids(last.pre.cubes) \ last.pre.rollingCubes
                          \subseteq rollingCubes
    /\ (last.op # "none" /\ ~ JustFramed) =>
          /\ rollingCubes = last.pre.rollingCubes
          /\ anims = last.pre.anims
    /\ last.op # "none" =>
          /\ nextId >= last.pre.nextId
          /\ \A id \in Ids(cubes) :
                id \in Ids(last.pre.cubes) \/ id >= last.pre.nextId

\* the mark took a cube off the list in the middle of its first roll; the
\* roll went on and its snap has now taken the cube out of rollingCubes
C26_Witness ==
    /\ JustFramed
    /\ keyAge = 0
    /\ frames < moveInterval
    /\ \E i \in 1..Len(last.pre.anims) :
          /\ last.pre.anims[i].progress >= Unit
          /\ last.pre.anims[i].id \in last.pre.rollingCubes
          /\ last.pre.anims[i].id \notin Ids(last.pre.cubes)
          /\ last.pre.anims[i].id \notin rollingCubes

\* v rounded to the nearest integer, ties up
RoundUp(v) ==
    IF 2 * (v % Unit) >= Unit THEN v - (v % Unit) + Unit ELSE v - (v % Unit)
\* the cell of the collision check: round(v - 0.5) + 0.5 on both axes
CollisionCell(p) ==
    <<RoundUp(p.x - Half) + Half, RoundUp(p.z - Half) + Half>>

\* C27: the mark laid where the player stands and then activated removes a
\* cube exactly if the cube's key (floor(x) + 0.5, floor(z)) equals the
\* mark's, and that is so exactly if the collision check puts the cube and
\* the player in the same cell (round(v - 0.5) + 0.5 on both axes).
C27_SameCells ==
    (JustActivated /\ last.pre.player = player) =>
        \A i \in 1..Len(last.pre.cubes) :
            LET c == last.pre.cubes[i]
                hit == c.id \notin Ids(cubes)
            IN  /\ hit <=> CellKeyOf(c) = CellKeyOf(player)
                /\ hit <=> CollisionCell(c) = CollisionCell(player)
                /\ hit <=> wouldCollide(last.pre, player)

\* the mark of a player standing off the centre of its cell, left of the
\* origin, has removed the cube of that cell
C27_Witness ==
    /\ JustActivated
    /\ last.pre.player = player
    /\ player.x < 0
    /\ player.z < 0
    /\ Len(last.pre.cubes) = 1
    /\ cubes = <<>>
    /\ CollisionCell(last.pre.cubes[1]) = CollisionCell(player)
    /\ last.pre.cubes[1].x # player.x

\* C28: while the game is not over, at the end of every frame no cube that
\* is in the list and not in rollingCubes lies in the cell of the player.
C28_NoSettledCubeOnPlayer ==
    (JustFramed /\ ~ isGameOver) => SettledAt(G, player) = {}

\* a cube has rolled into the cell of the player, who left it in the frame
\* in which the cube settled there
C28_Witness ==
    /\ PlayerUpdated
    /\ ~ isGameOver
    /\ CellOf(player) # CellOf(last.pre.player)
    /\ RollingAt(last.pre, last.pre.player) # {}
    /\ SettledAt(G, last.pre.player) # {}

\* C29 (as claimed): once isGameOver is true, score, rows, level, the cubes
\* in the list, the mark and the pending areas never change again, whatever
\* Space or Backspace events arrive.
C29_FrozenAfterGameOver ==
    [][isGameOver =>
          /\ UNCHANGED <<score, rows, level, markedCells>>
          /\ Ids(cubes') = Ids(cubes)
          /\ KeysOf(advantageSpots') = KeysOf(advantageSpots)]_vars

\* C30 (as claimed): handlePlayerDeath runs at most once in a run, also
\* when one area trigger matches several Forbidden cubes with rows at the
\* floor and when Forbidden cubes are cleared after the game has ended.
C30_DeathAtMostOnce == deaths <= 1

====
